---- MODULE Spec2Model ----
(***************************************************************************)
(* Model of src/config.rs: the configuration pipeline get_config (clap     *)
(* matches, dotenv file load, CHAIN shortcut, flag injection into the      *)
(* process environment, envy deserialisation into Config) and the          *)
(* lazy_static CONFIG that runs it behind a Once.                          *)
(*                                                                         *)
(* A process environment is a function from the names of the variables    *)
(* that are set to their values.  Command-line arguments are a function    *)
(* from the names of the arguments that were given to their values (""    *)
(* for a presence-only flag).  A file system is a function from the names  *)
(* of the files that exist to their lines.  An Option is a sequence of     *)
(* length 0 or 1.                                                          *)
(***************************************************************************)
EXTENDS Integers, Sequences, FiniteSets, TLC

\* Number of threads that dereference CONFIG.
NumThreads == 2

Threads == 1..NumThreads

---------------------------------------------------------------------------
(* Strings *)

Char(s, i) == SubSeq(s, i, i)

Digits == {"0", "1", "2", "3", "4", "5", "6", "7", "8", "9"}

DigitValue(c) ==
    CASE c = "0" -> 0 [] c = "1" -> 1 [] c = "2" -> 2 [] c = "3" -> 3
      [] c = "4" -> 4 [] c = "5" -> 5 [] c = "6" -> 6 [] c = "7" -> 7
      [] c = "8" -> 8 [] c = "9" -> 9

LowerCaseLetters ==
    <<"a", "b", "c", "d", "e", "f", "g", "h", "i", "j", "k", "l", "m",
      "n", "o", "p", "q", "r", "s", "t", "u", "v", "w", "x", "y", "z">>

UpperCaseLetters ==
    <<"A", "B", "C", "D", "E", "F", "G", "H", "I", "J", "K", "L", "M",
      "N", "O", "P", "Q", "R", "S", "T", "U", "V", "W", "X", "Y", "Z">>

\* char::to_lowercase on the ASCII characters a variable name is made of.
LowerChar(c) ==
    IF \E i \in 1..26 : UpperCaseLetters[i] = c
    THEN LowerCaseLetters[CHOOSE i \in 1..26 : UpperCaseLetters[i] = c]
    ELSE c

RECURSIVE to_lowercase(_)
to_lowercase(s) ==
    IF Len(s) = 0 THEN ""
    ELSE LowerChar(Char(s, 1)) \o to_lowercase(SubSeq(s, 2, Len(s)))

starts_with(s, p) == Len(s) >= Len(p) /\ SubSeq(s, 1, Len(p)) = p

\* str::trim, on the one whitespace character the inputs hold.
RECURSIVE trim(_)
trim(s) ==
    IF Len(s) > 0 /\ Char(s, 1) = " " THEN trim(SubSeq(s, 2, Len(s)))
    ELSE IF Len(s) > 0 /\ Char(s, Len(s)) = " " THEN trim(SubSeq(s, 1, Len(s) - 1))
    ELSE s

\* str::split(','): the pieces between the commas, empty pieces kept.
RECURSIVE SplitFrom(_, _, _)
SplitFrom(s, from, i) ==
    IF i > Len(s) THEN <<SubSeq(s, from, Len(s))>>
    ELSE IF Char(s, i) = "," THEN <<SubSeq(s, from, i - 1)>> \o SplitFrom(s, i + 1, i + 1)
    ELSE SplitFrom(s, from, i + 1)

split(s) == SplitFrom(s, 1, 1)

\* str::parse::<u64>: an optional '+', then one or more decimal digits.  The
\* inputs of the model are short, so the overflow error is not reachable.
U64Body(s) == IF Len(s) > 0 /\ Char(s, 1) = "+" THEN SubSeq(s, 2, Len(s)) ELSE s

IsU64(s) ==
    /\ Len(U64Body(s)) > 0
    /\ \A i \in 1..Len(U64Body(s)) : Char(U64Body(s), i) \in Digits

RECURSIVE DecimalValue(_)
DecimalValue(s) ==
    IF Len(s) = 0 THEN 0
    ELSE 10 * DecimalValue(SubSeq(s, 1, Len(s) - 1)) + DigitValue(Char(s, Len(s)))

ParseU64(s) == DecimalValue(U64Body(s))

\* str::parse::<bool>: exactly "true" or "false".
IsBool(s) == s \in {"true", "false"}

ParseBool(s) == s = "true"

---------------------------------------------------------------------------
(* Maps with a changing domain: std::env *)

IsSet(e, k) == k \in DOMAIN e

\* env::set_var: overwrites.
set_var(e, k, v) == (k :> v) @@ e

NoVars == [k \in {} |-> ""]

---------------------------------------------------------------------------
(* clap: the matches of the arguments given on the command line *)

ChainValues == {"westend", "kusama", "polkadot"}

\* The arguments declared with .default_value(..).
ClapDefaultValues ==
    ("error-interval" :> "30") @@
    ("config-path" :> ".env") @@
    ("hook-active-next-era-path" :> "./hooks/active_next_era.sh") @@
    ("hook-inactive-next-era-path" :> "./hooks/inactive_next_era.sh")

\* ArgMatches::value_of: the value given, else the declared default, else None.
value_of(a, name) ==
    IF name \in DOMAIN a THEN <<a[name]>>
    ELSE IF name \in DOMAIN ClapDefaultValues THEN <<ClapDefaultValues[name]>>
    ELSE <<>>

\* ArgMatches::is_present.
is_present(a, name) == name \in DOMAIN a \/ name \in DOMAIN ClapDefaultValues

---------------------------------------------------------------------------
(* dotenv: a file is a sequence of lines; a line is KEY=VALUE or malformed *)

Line(k, v) == [ok |-> TRUE, key |-> k, value |-> v]

Malformed == [ok |-> FALSE, key |-> "", value |-> ""]

\* A loader that overrides, as dotenv's from_filename_override does.
DotenvSet_Override(e, k, v) == set_var(e, k, v)

\* What the loader does with one parsed KEY=VALUE line.
DotenvSet(e, k, v) == IF IsSet(e, k) THEN e ELSE set_var(e, k, v)

\* Iter::load: line by line, stopping with Err at the first malformed line;
\* the lines before it have been applied.
RECURSIVE DotenvLoad(_, _)
DotenvLoad(e, lines) ==
    IF lines = <<>> THEN [env |-> e, ok |-> TRUE]
    ELSE IF ~Head(lines).ok THEN [env |-> e, ok |-> FALSE]
    ELSE DotenvLoad(DotenvSet(e, Head(lines).key, Head(lines).value), Tail(lines))

\* dotenv::from_filename(name).ok(): found tells whether the file was opened.
from_filename(e, f, name) ==
    IF name \notin DOMAIN f THEN [env |-> e, ok |-> FALSE, found |-> FALSE]
    ELSE [env |-> DotenvLoad(e, f[name]).env,
          ok |-> DotenvLoad(e, f[name]).ok,
          found |-> TRUE]

---------------------------------------------------------------------------
(* The Config struct and envy::prefixed("SKIPPER_").from_env::<Config>() *)

default_interval == 21600

default_error_interval == 30

Field(n, t, d, v) == [name |-> n, type |-> t, has_default |-> d, default |-> v]

\* The fields of Config in declaration order, with their serde defaults.
Config ==
    << Field("interval", "u64", TRUE, default_interval),
       Field("error_interval", "u64", TRUE, default_error_interval),
       Field("substrate_ws_url", "String", FALSE, ""),
       Field("stashes", "Vec", FALSE, <<>>),
       Field("is_debug", "bool", TRUE, FALSE),
       Field("is_short", "bool", TRUE, FALSE),
       Field("hook_new_session_path", "String", TRUE, ""),
       Field("hook_active_next_era_path", "String", TRUE, ""),
       Field("hook_inactive_next_era_path", "String", TRUE, ""),
       Field("matrix_user", "String", TRUE, ""),
       Field("matrix_bot_user", "String", TRUE, ""),
       Field("matrix_bot_password", "String", TRUE, ""),
       Field("matrix_disabled", "bool", TRUE, FALSE),
       Field("matrix_bot_display_name_disabled", "bool", TRUE, FALSE) >>

FieldNames == {Config[i].name : i \in 1..Len(Config)}

FieldOf(n) == Config[CHOOSE i \in 1..Len(Config) : Config[i].name = n]

Prefix == "SKIPPER_"

\* Every variable name the program or its inputs mention.
VarNames ==
    { "SKIPPER_INTERVAL", "SKIPPER_ERROR_INTERVAL", "SKIPPER_SUBSTRATE_WS_URL",
      "SKIPPER_STASHES", "SKIPPER_IS_DEBUG", "SKIPPER_IS_SHORT",
      "SKIPPER_HOOK_NEW_SESSION_PATH", "SKIPPER_HOOK_ACTIVE_NEXT_ERA_PATH",
      "SKIPPER_HOOK_INACTIVE_NEXT_ERA_PATH", "SKIPPER_MATRIX_USER",
      "SKIPPER_MATRIX_ACCOUNT", "SKIPPER_MATRIX_BOT_USER",
      "SKIPPER_MATRIX_BOT_PASSWORD", "SKIPPER_MATRIX_DISABLED",
      "SKIPPER_MATRIX_PUBLIC_ROOM_DISABLED",
      "SKIPPER_MATRIX_BOT_DISPLAY_NAME_DISABLED", "SKIPPER_CONFIG_FILENAME" }

\* envy's key of a prefixed variable: the name without the prefix, lowercased.
EnvyKey == [v \in VarNames |-> to_lowercase(SubSeq(v, Len(Prefix) + 1, Len(v)))]

PrefixedVars(e) == {v \in DOMAIN e : starts_with(v, Prefix)}

\* envy::prefixed: the prefixed variables under their keys.
prefixed(e) ==
    [k \in {EnvyKey[v] : v \in PrefixedVars(e)} |->
        e[CHOOSE v \in PrefixedVars(e) : EnvyKey[v] = k]]

\* Whether envy's deserializer accepts the string s for a field of type t.
Deserializable(t, s) ==
    CASE t = "u64" -> IsU64(s)
      [] t = "bool" -> IsBool(s)
      [] t = "String" -> TRUE
      [] t = "Vec" -> TRUE

\* A deserializer that splits the empty string like any other.
Deserialize_PlainSplit(t, s) ==
    CASE t = "u64" -> ParseU64(s)
      [] t = "bool" -> ParseBool(s)
      [] t = "String" -> s
      [] t = "Vec" -> [i \in 1..Len(split(s)) |-> trim(split(s)[i])]

\* The value envy's deserializer makes of s for a field of type t.  For a
\* Vec the empty string is the empty list, any other string is split on
\* commas and each piece trimmed.
Deserialize(t, s) ==
    CASE t = "u64" -> ParseU64(s)
      [] t = "bool" -> ParseBool(s)
      [] t = "String" -> s
      [] t = "Vec" -> IF s = "" THEN <<>>
                      ELSE [i \in 1..Len(split(s)) |-> trim(split(s)[i])]

\* A resolver that takes an empty value for an absent one.
FieldOk_EmptyIsAbsent(p, fd) ==
    IF fd.name \in DOMAIN p /\ p[fd.name] # "" THEN Deserializable(fd.type, p[fd.name])
    ELSE fd.has_default

\* A field resolves if its key is present and deserializable, or absent
\* with a serde default.
FieldOk(p, fd) ==
    IF fd.name \in DOMAIN p THEN Deserializable(fd.type, p[fd.name])
    ELSE fd.has_default

FieldValue(p, fd) ==
    IF fd.name \in DOMAIN p THEN Deserialize(fd.type, p[fd.name]) ELSE fd.default

\* A resolver that puts the default in place of a field that fails.
from_env_Lenient(e) ==
    LET p == prefixed(e)
    IN <<[n \in FieldNames |->
            IF FieldOk(p, FieldOf(n)) THEN FieldValue(p, FieldOf(n))
            ELSE FieldOf(n).default]>>

\* Ok(config) is <<config>>, Err(error) is <<>>.
from_env(e) ==
    LET p == prefixed(e)
    IN IF \A i \in 1..Len(Config) : FieldOk(p, Config[i])
       THEN <<[n \in FieldNames |-> FieldValue(p, FieldOf(n))]>>
       ELSE <<>>

---------------------------------------------------------------------------
(* get_config, statement by statement *)

DefaultConfigPath == ".env"

ConfigFilenameVar == "SKIPPER_CONFIG_FILENAME"

WsUrlVar == "SKIPPER_SUBSTRATE_WS_URL"

WestendUrl == "wss://westend-rpc.polkadot.io"

KusamaUrl == "wss://kusama-rpc.polkadot.io"

PolkadotUrl == "wss://rpc.polkadot.io"

LocalUrl == "ws://127.0.0.1:9944"

\* The path of the first load: value_of("config-path").unwrap_or(".env").
config_path(a) ==
    IF value_of(a, "config-path") # <<>> THEN value_of(a, "config-path")[1]
    ELSE DefaultConfigPath

\* The path of the second load, read from the environment the first load left.
fallback_path(e) == IF IsSet(e, ConfigFilenameVar) THEN e[ConfigFilenameVar] ELSE DefaultConfigPath

Opened(r, path) == IF r.found THEN <<path>> ELSE <<>>

\* Lines 212-223: the first load and, only if it failed, the second.  reads
\* lists the files that were opened, in order.
load_config(a, e, f) ==
    LET first == from_filename(e, f, config_path(a))
        second == from_filename(first.env, f, fallback_path(first.env))
    IN IF first.ok
       THEN [env |-> first.env, reads |-> <<config_path(a)>>]
       ELSE [env |-> second.env,
             reads |-> Opened(first, config_path(a))
                         \o Opened(second, fallback_path(first.env))]

\* A shortcut that leaves the endpoint unset when no CHAIN is given.
chain_shortcut_NoLocal(a, e) ==
    CASE value_of(a, "CHAIN") = <<"westend">> -> set_var(e, WsUrlVar, WestendUrl)
      [] value_of(a, "CHAIN") = <<"kusama">> -> set_var(e, WsUrlVar, KusamaUrl)
      [] value_of(a, "CHAIN") = <<"polkadot">> -> set_var(e, WsUrlVar, PolkadotUrl)
      [] OTHER -> e

\* A shortcut that yields to an endpoint already set.
chain_shortcut_IfUnset(a, e) ==
    IF IsSet(e, WsUrlVar) THEN e
    ELSE CASE value_of(a, "CHAIN") = <<"westend">> -> set_var(e, WsUrlVar, WestendUrl)
           [] value_of(a, "CHAIN") = <<"kusama">> -> set_var(e, WsUrlVar, KusamaUrl)
           [] value_of(a, "CHAIN") = <<"polkadot">> -> set_var(e, WsUrlVar, PolkadotUrl)
           [] OTHER -> set_var(e, WsUrlVar, LocalUrl)

\* Lines 225-240: the CHAIN shortcut, or the local endpoint if none is set.
chain_shortcut(a, e) ==
    CASE value_of(a, "CHAIN") = <<"westend">> -> set_var(e, WsUrlVar, WestendUrl)
      [] value_of(a, "CHAIN") = <<"kusama">> -> set_var(e, WsUrlVar, KusamaUrl)
      [] value_of(a, "CHAIN") = <<"polkadot">> -> set_var(e, WsUrlVar, PolkadotUrl)
      [] OTHER -> IF ~IsSet(e, WsUrlVar) THEN set_var(e, WsUrlVar, LocalUrl) ELSE e

Inject(flag, kind, var) == [flag |-> flag, kind |-> kind, var |-> var]

\* Lines 242-298 in order: the flag tested, how (value_of or is_present), and
\* the variable set.
Injections ==
    << Inject("stashes", "value", "SKIPPER_STASHES"),
       Inject("substrate-ws-url", "value", "SKIPPER_SUBSTRATE_WS_URL"),
       Inject("debug", "present", "SKIPPER_IS_DEBUG"),
       Inject("short", "present", "SKIPPER_IS_SHORT"),
       Inject("hook-new-session-path", "value", "SKIPPER_HOOK_NEW_SESSION_PATH"),
       Inject("hook-active-next-era-path", "value", "SKIPPER_HOOK_ACTIVE_NEXT_ERA_PATH"),
       Inject("hook-inactive-next-era-path", "value", "SKIPPER_HOOK_INACTIVE_NEXT_ERA_PATH"),
       Inject("disable-matrix", "present", "SKIPPER_MATRIX_DISABLED"),
       Inject("disable-public-matrix-room", "present", "SKIPPER_MATRIX_PUBLIC_ROOM_DISABLED"),
       Inject("matrix-user", "value", "SKIPPER_MATRIX_ACCOUNT"),
       Inject("matrix-bot-user", "value", "SKIPPER_MATRIX_BOT_USER"),
       Inject("matrix-bot-password", "value", "SKIPPER_MATRIX_BOT_PASSWORD"),
       Inject("error-interval", "value", "SKIPPER_ERROR_INTERVAL") >>

\* One `if let Some(v) = value_of(..)` or `if is_present(..)` statement.
InjectOne(a, e, j) ==
    IF j.kind = "value"
    THEN IF value_of(a, j.flag) # <<>> THEN set_var(e, j.var, value_of(a, j.flag)[1]) ELSE e
    ELSE IF is_present(a, j.flag) THEN set_var(e, j.var, "true") ELSE e

RECURSIVE InjectFrom(_, _, _)
InjectFrom(a, e, i) ==
    IF i > Len(Injections) THEN e
    ELSE InjectFrom(a, InjectOne(a, e, Injections[i]), i + 1)

inject_flags(a, e) == InjectFrom(a, e, 1)

\* The environment get_config hands to envy.
final_env(a, e, f) == inject_flags(a, chain_shortcut(a, load_config(a, e, f).env))

\* Lines 300-303: Ok(config) => config, Err(error) => panic!.  <<>> is the panic.
get_config(a, e, f) == from_env(final_env(a, e, f))

---------------------------------------------------------------------------
(* The inputs of a run: command line, process environment, files *)

Some(S) == {<<x>> : x \in S}

Optional(S) == {<<>>} \cup Some(S)

\* The map with the one entry k |-> o[1], or no entry if o is None.
Entry(k, o) == IF o = <<>> THEN NoVars ELSE (k :> o[1])

\* The variable envy reads a field from.
VarOfField(n) == CHOOSE v \in VarNames : starts_with(v, Prefix) /\ EnvyKey[v] = n

\* The flag the command line documents for a field, if any.
FlagOfField(n) ==
    CASE n = "error_interval" -> <<"error-interval">>
      [] n = "substrate_ws_url" -> <<"substrate-ws-url">>
      [] n = "stashes" -> <<"stashes">>
      [] n = "is_debug" -> <<"debug">>
      [] n = "is_short" -> <<"short">>
      [] n = "hook_new_session_path" -> <<"hook-new-session-path">>
      [] n = "hook_active_next_era_path" -> <<"hook-active-next-era-path">>
      [] n = "hook_inactive_next_era_path" -> <<"hook-inactive-next-era-path">>
      [] n = "matrix_user" -> <<"matrix-user">>
      [] n = "matrix_bot_user" -> <<"matrix-bot-user">>
      [] n = "matrix_bot_password" -> <<"matrix-bot-password">>
      [] n = "matrix_disabled" -> <<"disable-matrix">>
      [] n = "matrix_bot_display_name_disabled" -> <<"disable-matrix-bot-display-name">>
      [] OTHER -> <<>>

\* What one run varies: a variable, the flag that goes with it, its type.
Focus(var, flag, type) == [var |-> var, flag |-> flag, type |-> type]

Foci ==
    {Focus(VarOfField(n), FlagOfField(n), FieldOf(n).type) : n \in FieldNames}
      \cup {Focus("SKIPPER_MATRIX_PUBLIC_ROOM_DISABLED", <<"disable-public-matrix-room">>, "bool")}

\* Values a flag can be given: a presence-only flag has none.
FlagValues(t) ==
    CASE t = "u64" -> {"7", "x"}
      [] t = "String" -> {"f", ""}
      [] t = "Vec" -> {"stash_1,stash_2", ""}
      [] t = "bool" -> {""}

\* Values a KEY=VALUE line of the file can give.
FileValues(t) ==
    CASE t = "u64" -> {"45", ""}
      [] t = "String" -> {"d", ""}
      [] t = "Vec" -> {"a, b", "a,,b"}
      [] t = "bool" -> {"true", ""}

\* Values the process environment can hold at start.
EnvValues(t) ==
    CASE t = "u64" -> {"60", "+8", "6x"}
      [] t = "String" -> {"e", ""}
      [] t = "Vec" -> {"s", ""}
      [] t = "bool" -> {"false", "yes", "true"}

StashesVar == "SKIPPER_STASHES"

BotUserVar == "SKIPPER_MATRIX_BOT_USER"

Input(a, e, f) == [args |-> a, env |-> e, files |-> f]

\* One variable supplied by any combination of flag, file and environment,
\* with or without a CHAIN, with or without stashes in the environment.
FieldInputs ==
    UNION { { Input(Entry("CHAIN", chain) @@ (IF c.flag = <<>> THEN NoVars ELSE Entry(c.flag[1], fl)),
                    Entry(c.var, ev) @@ Entry(StashesVar, base),
                    IF fi = <<>> THEN NoVars ELSE (DefaultConfigPath :> <<Line(c.var, fi[1])>>)) :
                <<fl, fi, ev, chain, base>> \in
                    (IF c.flag = <<>> THEN {<<>>} ELSE Optional(FlagValues(c.type)))
                      \X Optional(FileValues(c.type))
                      \X Optional(EnvValues(c.type))
                      \X (IF c.var = WsUrlVar THEN Optional(ChainValues) ELSE Optional({"kusama"}))
                      \X (IF c.var = StashesVar THEN {<<>>} ELSE Optional({"s"})) } :
            c \in Foci }

CustomPath == "custom.env"

AltPath == "alt.env"

\* What a file named n can hold: complete, malformed after its first line,
\* or with a key given twice.  Each file gives the bot user its own name.
FileContents(n) ==
    { <<Line(StashesVar, "s"), Line(BotUserVar, n)>>,
      <<Line(BotUserVar, n), Malformed, Line(StashesVar, "s")>>,
      <<Line(BotUserVar, n), Line(BotUserVar, "again"), Line(StashesVar, "s")>> }

\* The three candidate files present or not, --config-path given or not,
\* SKIPPER_CONFIG_FILENAME and the bot user set in the environment or not.
FileInputs ==
    { Input(Entry("config-path", cp),
            Entry(ConfigFilenameVar, cf) @@ Entry(BotUserVar, bu),
            Entry(DefaultConfigPath, f1) @@ Entry(CustomPath, f2) @@ Entry(AltPath, f3)) :
        <<cp, cf, bu, f1, f2, f3>> \in
            Optional({CustomPath}) \X Optional({AltPath}) \X Optional({"e"})
              \X Optional(FileContents(DefaultConfigPath))
              \X Optional(FileContents(CustomPath))
              \X Optional(FileContents(AltPath)) }

Inputs == FieldInputs \cup FileInputs

---------------------------------------------------------------------------
(* State *)

VARIABLES
    args,    \* the command line, fixed
    files,   \* the files, fixed
    env0,    \* the process environment at start, fixed
    env,     \* the process environment (std::env), shared by all threads
    reads,   \* the files the loader opened, in order
    once,    \* the Once of CONFIG: incomplete, running, complete, poisoned
    CONFIG,  \* the cell of CONFIG: None or Some(config)
    runs,    \* how many times get_config was entered
    pc,      \* per thread: where it is
    got      \* per thread: the record &CONFIG gave it, if any

vars == <<args, files, env0, env, reads, once, CONFIG, runs, pc, got>>

Init ==
    /\ \E i \in Inputs : args = i.args /\ env0 = i.env /\ env = i.env /\ files = i.files
    /\ reads = <<>>
    /\ once = "incomplete"
    /\ CONFIG = <<>>
    /\ runs = 0
    /\ pc = [t \in Threads |-> "start"]
    /\ got = [t \in Threads |-> <<>>]

\* A check that lets a second thread in while the initializer runs.
CallOnceEnters_Racy(state) == state \in {"incomplete", "running"}

\* Once::call_once runs the initializer only from the incomplete state.
CallOnceEnters(state) == state = "incomplete"

\* A thread dereferences CONFIG: it gets the record if the Once is complete,
\* panics if it is poisoned, enters get_config if it is the first, and
\* otherwise blocks until the running initializer is done.
Deref(t) ==
    /\ pc[t] = "start"
    /\ IF once = "complete"
       THEN /\ got' = [got EXCEPT ![t] = CONFIG]
            /\ pc' = [pc EXCEPT ![t] = "done"]
            /\ UNCHANGED <<once, runs>>
       ELSE IF once = "poisoned"
       THEN /\ pc' = [pc EXCEPT ![t] = "panicked"]
            /\ UNCHANGED <<once, runs, got>>
       ELSE IF CallOnceEnters(once)
       THEN /\ once' = "running"
            /\ runs' = runs + 1
            /\ pc' = [pc EXCEPT ![t] = "load"]
            /\ UNCHANGED got
       ELSE /\ pc' = [pc EXCEPT ![t] = "blocked"]
            /\ UNCHANGED <<once, runs, got>>
    /\ UNCHANGED <<args, files, env0, env, reads, CONFIG>>

\* A blocked thread resumes once the initializer has returned or panicked.
Resume(t) ==
    /\ pc[t] = "blocked"
    /\ once \in {"complete", "poisoned"}
    /\ IF once = "complete"
       THEN /\ got' = [got EXCEPT ![t] = CONFIG]
            /\ pc' = [pc EXCEPT ![t] = "done"]
       ELSE /\ pc' = [pc EXCEPT ![t] = "panicked"]
            /\ UNCHANGED got
    /\ UNCHANGED <<args, files, env0, env, reads, once, CONFIG, runs>>

\* get_config, lines 212-223.
LoadConfig(t) ==
    /\ pc[t] = "load"
    /\ LET loaded == load_config(args, env, files)
       IN /\ env' = loaded.env
          /\ reads' = reads \o loaded.reads
    /\ pc' = [pc EXCEPT ![t] = "chain"]
    /\ UNCHANGED <<args, files, env0, once, CONFIG, runs, got>>

\* get_config, lines 225-240.
ChainShortcut(t) ==
    /\ pc[t] = "chain"
    /\ env' = chain_shortcut(args, env)
    /\ pc' = [pc EXCEPT ![t] = "flags"]
    /\ UNCHANGED <<args, files, env0, reads, once, CONFIG, runs, got>>

\* get_config, lines 242-298.
InjectFlags(t) ==
    /\ pc[t] = "flags"
    /\ env' = inject_flags(args, env)
    /\ pc' = [pc EXCEPT ![t] = "resolve"]
    /\ UNCHANGED <<args, files, env0, reads, once, CONFIG, runs, got>>

\* get_config, lines 300-303, and the end of call_once: the record is stored
\* and the Once completes, or the panic poisons the Once.
Resolve(t) ==
    /\ pc[t] = "resolve"
    /\ LET result == from_env(env)
       IN IF result # <<>>
          THEN /\ CONFIG' = result
               /\ once' = "complete"
               /\ got' = [got EXCEPT ![t] = result]
               /\ pc' = [pc EXCEPT ![t] = "done"]
          ELSE /\ once' = "poisoned"
               /\ pc' = [pc EXCEPT ![t] = "panicked"]
               /\ UNCHANGED <<CONFIG, got>>
    /\ UNCHANGED <<args, files, env0, env, reads, runs>>

Next ==
    \E t \in Threads :
        \/ Deref(t)
        \/ Resume(t)
        \/ LoadConfig(t)
        \/ ChainShortcut(t)
        \/ InjectFlags(t)
        \/ Resolve(t)

Spec == Init /\ [][Next]_vars

---------------------------------------------------------------------------
(* Vocabulary of the properties *)

\* The initializer of CONFIG has returned or panicked; env is then the
\* environment that was handed to envy.
Finished == once \in {"complete", "poisoned"}

\* The load step of get_config has been taken.
Loaded == once # "incomplete" /\ \A t \in Threads : pc[t] # "load"

\* The load step is the last step taken by the initializer.
JustLoaded == \E t \in Threads : pc[t] = "chain"

Given(flag) == flag \in DOMAIN args

\* The value the first KEY=VALUE line for k in lines gives, if any.
FirstValue(lines, k) ==
    IF \E i \in 1..Len(lines) : lines[i].ok /\ lines[i].key = k
    THEN <<lines[CHOOSE i \in 1..Len(lines) :
                    /\ lines[i].ok /\ lines[i].key = k
                    /\ \A j \in 1..(i - 1) : ~(lines[j].ok /\ lines[j].key = k)].value>>
    ELSE <<>>

\* A run whose only file, if any, is .env, found by the default path.
PlainFileRun == ~Given("config-path") /\ ~IsSet(env0, ConfigFilenameVar)

\* The value the config file supplies for variable v in such a run.
FileSupplied(v) ==
    IF DefaultConfigPath \in DOMAIN files THEN FirstValue(files[DefaultConfigPath], v) ELSE <<>>

OverridableFields == {n \in FieldNames : FlagOfField(n) # <<>>}

\* The value a flag supplies to a field: true for a presence-only flag.
FlagSupplied(n) ==
    IF FieldOf(n).type = "bool" THEN TRUE
    ELSE Deserialize(FieldOf(n).type, args[FlagOfField(n)[1]])

\* The default of a field as documented: the default value of its flag
\* where the command line declares one, else the serde default.
DocumentedDefault(n) ==
    IF FlagOfField(n)[1] \in DOMAIN ClapDefaultValues
    THEN Deserialize(FieldOf(n).type, ClapDefaultValues[FlagOfField(n)[1]])
    ELSE FieldOf(n).default

\* Flag, else file, else default.
ByPrecedence(n) ==
    IF Given(FlagOfField(n)[1]) THEN FlagSupplied(n)
    ELSE IF FileSupplied(VarOfField(n)) # <<>>
    THEN Deserialize(FieldOf(n).type, FileSupplied(VarOfField(n))[1])
    ELSE DocumentedDefault(n)

\* The fields that do not resolve from the final environment.
FailingFields ==
    LET p == prefixed(env)
    IN {n \in FieldNames : ~FieldOk(p, FieldOf(n))}

\* Every field but n resolves from the final environment.
OthersOk(n) == FailingFields \subseteq {n}

KeyAbsent(n) == ~IsSet(env, VarOfField(n))

KeyEmpty(n) == IsSet(env, VarOfField(n)) /\ env[VarOfField(n)] = ""

DefaultedFields == {n \in FieldNames : FieldOf(n).has_default}

RequiredFields == FieldNames \ DefaultedFields

---------------------------------------------------------------------------
(* C1 *)

\* The values flag and file supply for field n, if any, are of its type.
WellTyped(n) ==
    /\ (Given(FlagOfField(n)[1]) /\ FieldOf(n).type # "bool") =>
          Deserializable(FieldOf(n).type, args[FlagOfField(n)[1]])
    /\ FileSupplied(VarOfField(n)) # <<>> =>
          Deserializable(FieldOf(n).type, FileSupplied(VarOfField(n))[1])

\* C1 (as claimed): whenever the environment at start does not set a field's
\* variable and flag and file supply values of the field's type, a returned
\* record holds, for every overridable field, the flag's value if the flag is
\* given, else the file's value if the file supplies one, else the field's
\* default (for substrate_ws_url, which has no default and has the CHAIN
\* shortcut, only when no CHAIN is given and flag or file supplies it).
C1_Precedence ==
    (once = "complete" /\ PlainFileRun) =>
        \A n \in OverridableFields :
            (/\ ~IsSet(env0, VarOfField(n))
             /\ WellTyped(n)
             /\ (FieldOf(n).has_default
                    \/ (/\ ~Given("CHAIN")
                        /\ (Given(FlagOfField(n)[1]) \/ FileSupplied(VarOfField(n)) # <<>>))))
                => CONFIG[1][n] = ByPrecedence(n)

---------------------------------------------------------------------------
(* C2 *)

\* C2: get_config is entered at most once, whatever the interleaving; a
\* thread holds a record only when the Once is complete, the record it holds
\* is the one in CONFIG, and that record has every field of Config.
C2_OnceOnly ==
    /\ runs <= 1
    /\ \A t \in Threads :
          got[t] # <<>> =>
              /\ once = "complete"
              /\ got[t] = CONFIG
              /\ DOMAIN got[t][1] = FieldNames

\* C2 witness: every thread holds the record after one run, and all threads
\* raced (more than one thread, none left at start).
C2_Witness ==
    /\ runs = 1
    /\ Cardinality(Threads) > 1
    /\ \A t \in Threads : pc[t] = "done" /\ got[t] # <<>>

---------------------------------------------------------------------------
(* C3 *)

\* No positional CHAIN, no --substrate-ws-url, and the variable set neither
\* by the environment at start nor by the file load.
NoEndpointInput ==
    /\ ~Given("CHAIN")
    /\ ~Given("substrate-ws-url")
    /\ ~IsSet(env0, WsUrlVar)
    /\ ~IsSet(load_config(args, env0, files).env, WsUrlVar)

---------------------------------------------------------------------------
(* C4 *)

WellKnownUrl(chain) ==
    CASE chain = "westend" -> "wss://westend-rpc.polkadot.io"
      [] chain = "kusama" -> "wss://kusama-rpc.polkadot.io"
      [] chain = "polkadot" -> "wss://rpc.polkadot.io"

\* C4: with a CHAIN and no --substrate-ws-url, a returned record holds the
\* chain's well-known URL whatever environment and file held; with both a
\* CHAIN and --substrate-ws-url it holds the flag's value.
C4_NetworkShortcut ==
    once = "complete" =>
        /\ (Given("CHAIN") /\ ~Given("substrate-ws-url")) =>
              CONFIG[1].substrate_ws_url = WellKnownUrl(args["CHAIN"])
        /\ (Given("CHAIN") /\ Given("substrate-ws-url")) =>
              CONFIG[1].substrate_ws_url = args["substrate-ws-url"]

\* C4 witness: a CHAIN without the flag overrides an endpoint that both the
\* environment and the file set.
C4_Witness ==
    /\ once = "complete"
    /\ Given("CHAIN") /\ ~Given("substrate-ws-url")
    /\ IsSet(env0, WsUrlVar)
    /\ PlainFileRun /\ FileSupplied(WsUrlVar) # <<>>
    /\ CONFIG[1].substrate_ws_url = WellKnownUrl(args["CHAIN"])

---------------------------------------------------------------------------
(* C5 *)

\* Positional kusama, no named flag, no file, the given environment.
KusamaOnly(e) == args = ("CHAIN" :> "kusama") /\ files = NoVars /\ env0 = e

DefaultsRecord ==
    /\ once = "complete"
    /\ CONFIG[1].substrate_ws_url = "wss://kusama-rpc.polkadot.io"
    /\ CONFIG[1].interval = 21600
    /\ CONFIG[1].error_interval = 30
    /\ CONFIG[1].stashes = <<>>
    /\ CONFIG[1].is_debug = FALSE

\* C5 (as claimed): kusama alone, with no SKIPPER_ variable set, succeeds
\* with the defaults and an empty list of stashes.
C5_DefaultsScenario == (Finished /\ KusamaOnly(NoVars)) => DefaultsRecord

\* C5 (amended): kusama alone succeeds with the defaults and an empty list of
\* stashes when SKIPPER_STASHES is the one variable set, to the empty
\* string; with no SKIPPER_ variable set at all it panics.
C5_DefaultsWithEmptyStashes ==
    /\ (Finished /\ KusamaOnly(StashesVar :> "")) => DefaultsRecord
    /\ (Finished /\ KusamaOnly(NoVars)) => (once = "poisoned" /\ CONFIG = <<>>)

\* C5 witness: the record of the amended scenario.
C5_Witness == KusamaOnly(StashesVar :> "") /\ DefaultsRecord

---------------------------------------------------------------------------
(* C6 *)

\* Some opened file has a KEY=VALUE line k=v.
SomeLine(k, v) ==
    \E i \in 1..Len(reads) :
        \E j \in 1..Len(files[reads[i]]) :
            /\ files[reads[i]][j].ok
            /\ files[reads[i]][j].key = k
            /\ files[reads[i]][j].value = v

\* C6: right after the load step every variable that was set at start has
\* the value it had, and every variable that is new was given its value by
\* a line of an opened file.
C6_LoadKeepsEnvironment ==
    JustLoaded =>
        /\ \A k \in DOMAIN env0 : IsSet(env, k) /\ env[k] = env0[k]
        /\ \A k \in DOMAIN env \ DOMAIN env0 : SomeLine(k, env[k])

\* C6 witness: the opened file has a line for a variable that was set at
\* start, with another value.
C6_Witness ==
    /\ JustLoaded
    /\ \E k \in DOMAIN env0 : \E i \in 1..Len(reads) :
          /\ FirstValue(files[reads[i]], k) # <<>>
          /\ FirstValue(files[reads[i]], k) # <<env0[k]>>

---------------------------------------------------------------------------
(* C7 *)

Defaulted(n) == once = "complete" /\ CONFIG[1][n] = FieldOf(n).default

\* C7 (as claimed): a field with a default resolves to it when its variable
\* is absent and when it is the empty string (the other fields resolving);
\* a required field whose variable is absent makes resolution fail.
C7_DefaultWhenAbsentOrEmpty ==
    Finished =>
        /\ \A n \in DefaultedFields :
              (KeyAbsent(n) \/ KeyEmpty(n)) => (OthersOk(n) => Defaulted(n))
        /\ \A n \in RequiredFields : KeyAbsent(n) => once = "poisoned"

\* C7 (amended): a field with a default resolves to it when its variable is
\* absent; when the variable is the empty string a String field resolves to
\* the empty string, its default, and an integer or boolean field makes
\* resolution fail; a required field whose variable is absent makes
\* resolution fail.
C7_DefaultWhenAbsent ==
    Finished =>
        /\ \A n \in DefaultedFields :
              /\ KeyAbsent(n) => (OthersOk(n) => Defaulted(n))
              /\ (KeyEmpty(n) /\ FieldOf(n).type = "String") => (OthersOk(n) => Defaulted(n))
              /\ (KeyEmpty(n) /\ FieldOf(n).type \in {"u64", "bool"}) => once = "poisoned"
        /\ \A n \in RequiredFields : KeyAbsent(n) => once = "poisoned"

\* C7 witness: the interval variable is the empty string, everything else
\* resolves, and get_config panicked.
C7_Witness ==
    /\ once = "poisoned"
    /\ KeyEmpty("interval")
    /\ OthersOk("interval")

---------------------------------------------------------------------------
(* C8 *)

\* C8 (as claimed): a returned record never has an empty substrate_ws_url.
C8_NonEmptyEndpoint == once = "complete" => CONFIG[1].substrate_ws_url # ""

---------------------------------------------------------------------------
(* C9 *)

\* The typed resolver fails on the final environment: a required variable
\* is absent, or a variable does not coerce to its field's type.
ResolverFails ==
    \/ \E n \in RequiredFields : KeyAbsent(n)
    \/ \E n \in FieldNames :
          /\ IsSet(env, VarOfField(n))
          /\ \/ FieldOf(n).type = "u64" /\ ~IsU64(env[VarOfField(n)])
             \/ FieldOf(n).type = "bool" /\ ~IsBool(env[VarOfField(n)])

\* C9: when the resolver fails, get_config panics: CONFIG holds no record
\* and no thread gets one.
C9_NoPartialConfig ==
    (Finished /\ ResolverFails) =>
        /\ once = "poisoned"
        /\ CONFIG = <<>>
        /\ \A t \in Threads : got[t] = <<>>

\* C9 witness: stashes and endpoint are set, the interval does not coerce,
\* and get_config panicked.
C9_Witness ==
    /\ once = "poisoned"
    /\ IsSet(env, StashesVar) /\ IsSet(env, WsUrlVar)
    /\ IsSet(env, "SKIPPER_INTERVAL") /\ ~IsU64(env["SKIPPER_INTERVAL"])

---------------------------------------------------------------------------
(* C10 *)

\* The one path the claim selects: flag, else environment, else .env.
ChosenPath ==
    IF Given("config-path") THEN args["config-path"]
    ELSE IF IsSet(env0, ConfigFilenameVar) THEN env0[ConfigFilenameVar]
    ELSE DefaultConfigPath

WellFormed == \A n \in DOMAIN files : \A i \in 1..Len(files[n]) : files[n][i].ok

\* C10 (as claimed, where the chosen file exists and no file has a malformed
\* line): the loader opens the chosen file and no other file.
C10_PathSelection ==
    (Loaded /\ WellFormed /\ ChosenPath \in DOMAIN files) => reads = <<ChosenPath>>

====
